---- MODULE Spec2Model ----
(***************************************************************************)
(* tools/mkfs_ext2.py: a one-shot script that lays out a simplified Ext2   *)
(* volume in memory (block groups, bitmaps, root and lost+found) and then  *)
(* writes it to disk.img.  The script is a straight line of module-level   *)
(* statements; every statement group is one action, the loops over the     *)
(* groups and over the reserved inodes advance one iteration per step      *)
(* (their inner loops are part of the step), and a Python exception ends   *)
(* the run in pc = "crashed".  The volume parameters are the script's constants       *)
(* DISK_SIZE, BLOCKS_PER_GROUP and INODES_PER_GROUP; a run picks one       *)
(* parameter set and keeps it.  BLOCK_SIZE and INODE_SIZE stay at the      *)
(* script's values because the script hard-codes the 1024-byte superblock  *)
(* at byte 1024 and first_data_block = 1.                                  *)
(* The two time.time() stamps of create_superblock are left out: no other  *)
(* statement reads them.                                                   *)
(***************************************************************************)
EXTENDS Integers, Sequences, FiniteSets, TLC

VARIABLES
    params,             \* [DISK_SIZE, BLOCKS_PER_GROUP, INODES_PER_GROUP]
    pc,                 \* position in the script
    error,              \* the exception that ended the run, or "none"
    groups,             \* list of BlockGroup, indexed 0 .. GROUP_COUNT-1
    g_idx,              \* index of the loop variable g (lines 127, 234, 248)
    i,                  \* loop variable of the reserved-inode loop (line 180)
    root_data_block,
    lf_data_block,
    total_free_blocks,
    total_free_inodes,
    sb_data,            \* the superblock buffer
    file,               \* disk.img: [exists, size, writes]
    printed             \* "Formatted disk.img with Ext2" was printed

vars == <<params, pc, error, groups, g_idx, i, root_data_block, lf_data_block,
          total_free_blocks, total_free_inodes, sb_data, file, printed>>

----------------------------------------------------------------------------
(* Program constants *)

BLOCK_SIZE == 1024
INODE_SIZE == 128
SUPERBLOCK_SIZE == 1024
SUPERBLOCK_OFFSET == 1024
GROUP_DESC_SIZE == 32
GROUP_DESC_PACKED == 20
DIR_MODE == 16877
USHORT_MAX == 65535
DEFAULT_DISK_SIZE == 67108864
DEFAULT_BLOCKS_PER_GROUP == 8192
DEFAULT_INODES_PER_GROUP == 2048
root_inode_index == 2
lf_inode_index == 11

(* Bounds of the enumerated parameter sets *)

MaxDiskBlocks == 30
MaxBlocksPerGroup == 12
MaxInodeTableBlocks == 3

----------------------------------------------------------------------------
(* Parameters and derived geometry, lines 5-15 *)

DISK_SIZE == params.DISK_SIZE
BLOCKS_PER_GROUP == params.BLOCKS_PER_GROUP
INODES_PER_GROUP == params.INODES_PER_GROUP

BLOCK_COUNT == DISK_SIZE \div BLOCK_SIZE
GROUP_COUNT == (BLOCK_COUNT + BLOCKS_PER_GROUP - 1) \div BLOCKS_PER_GROUP
INODE_COUNT == INODES_PER_GROUP * GROUP_COUNT

DefaultParams ==
    [DISK_SIZE |-> DEFAULT_DISK_SIZE,
     BLOCKS_PER_GROUP |-> DEFAULT_BLOCKS_PER_GROUP,
     INODES_PER_GROUP |-> DEFAULT_INODES_PER_GROUP]

Max(a, b) == IF a >= b THEN a ELSE b
Min(S) == CHOOSE x \in S : \A y \in S : x <= y

RECURSIVE SumOver(_, _)
SumOver(f, S) ==
    IF S = {} THEN 0
    ELSE LET x == CHOOSE y \in S : TRUE IN f[x] + SumOver(f, S \ {x})

----------------------------------------------------------------------------
(* Bitmaps: bytearray(BLOCK_SIZE).  A bitmap is the set of its set bits,   *)
(* each a pair <<byte index, bit in byte>>, as the script addresses them:  *)
(* bitmap[idx // 8] |= (1 << (idx % 8)).                                   *)

\* mutant: the byte index is dropped, every bit lands in byte 0
BitInByteZero(idx) == <<0, idx % 8>>

Bit(idx) == <<idx \div 8, idx % 8>>

SetBit(bitmap, idx) == bitmap \cup {Bit(idx)}

TestBit(bitmap, idx) == Bit(idx) \in bitmap

\* bytearray indexing raises IndexError past the buffer's last byte
InBuffer(idx) == idx \div 8 < BLOCK_SIZE

BlockGroup(id) ==
    [id |-> id,
     block_bitmap_blk |-> 0,
     inode_bitmap_blk |-> 0,
     inode_table_blk |-> 0,
     free_blocks_count |-> BLOCKS_PER_GROUP,
     free_inodes_count |-> INODES_PER_GROUP,
     used_dirs_count |-> 0,
     block_bitmap |-> {},
     inode_bitmap |-> {}]

\* "rel = blk - (g.id * BLOCKS_PER_GROUP + 1)"
RelBlock(g, blk) == blk - (g.id * BLOCKS_PER_GROUP + 1)

\* the blocks blk, blk+1, ... of a run of n that are marked before the first
\* IndexError (all n when every bit lies inside the buffer)
MarkedBefore(g, blk, n) ==
    LET bad == {k \in 0 .. (n - 1) : ~InBuffer(RelBlock(g, blk + k))}
    IN  IF bad = {} THEN n ELSE Min(bad)

\* mark n consecutive blocks from blk on, each with its bit set and the free
\* counter decremented once; stops at the first IndexError
MarkBlocks(g, blk, n) ==
    LET m == MarkedBefore(g, blk, n)
    IN  [g |-> [g EXCEPT !.block_bitmap =
                             @ \cup {Bit(RelBlock(g, blk + k)) : k \in 0 .. (m - 1)},
                         !.free_blocks_count = @ - m],
         ok |-> m = n]

inode_table_blocks == (INODES_PER_GROUP * INODE_SIZE) \div BLOCK_SIZE

\* group 0 only: superblock and GDT bits, lines 130-138
ReserveSuperblockAndGDT(g) ==
    [g EXCEPT !.block_bitmap = SetBit(SetBit(@, 0), 1),
              !.free_blocks_count = @ - 2]

\* one iteration of the loop "for g in groups", lines 127-169
AllocGroupMetadata(g) ==
    LET start_block == g.id * BLOCKS_PER_GROUP + 1
        g0 == IF g.id = 0 THEN ReserveSuperblockAndGDT(g) ELSE g
        current_alloc == IF g.id = 0 THEN 3 ELSE start_block
        r1 == MarkBlocks([g0 EXCEPT !.block_bitmap_blk = current_alloc],
                         current_alloc, 1)
        r2 == MarkBlocks([r1.g EXCEPT !.inode_bitmap_blk = current_alloc + 1],
                         current_alloc + 1, 1)
        r3 == MarkBlocks([r2.g EXCEPT !.inode_table_blk = current_alloc + 2],
                         current_alloc + 2, inode_table_blocks)
    IN  IF ~r1.ok THEN r1 ELSE IF ~r2.ok THEN r2 ELSE r3

\* owning group and slot of an inode, lines 173-174, 182-183, 200-201
InodeGroup(ino) == (ino - 1) \div INODES_PER_GROUP
InodeOffset(ino) == (ino - 1) % INODES_PER_GROUP

\* the three statements that take an inode, lines 175-177 and 184-185
MarkInode(g, off, isDir) ==
    [g EXCEPT !.inode_bitmap = SetBit(@, off),
              !.free_inodes_count = @ - 1,
              !.used_dirs_count = IF isDir THEN @ + 1 ELSE @]

\* the indices the scan "for i in range(BLOCKS_PER_GROUP)" finds unset
FreeBlockIndices(g) ==
    {k \in 0 .. (BLOCKS_PER_GROUP - 1) : ~TestBit(g.block_bitmap, k)}

\* mutant: the absolute address forgets the first_data_block offset
FirstFitNoOffset(g) ==
    IF {k \in 0 .. (BLOCKS_PER_GROUP - 1) : <<k \div 8, k % 8>> \notin g.block_bitmap} # {}
    THEN LET k == Min({j \in 0 .. (BLOCKS_PER_GROUP - 1) :
                          <<j \div 8, j % 8>> \notin g.block_bitmap})
         IN  [g |-> [g EXCEPT !.block_bitmap = @ \cup {<<k \div 8, k % 8>>},
                               !.free_blocks_count = @ - 1],
              blk |-> g.id * BLOCKS_PER_GROUP + k,
              ok |-> TRUE]
    ELSE [g |-> g, blk |-> 0, ok |-> TRUE]

\* first-fit scan, lines 191-196 and 208-213: "none" leaves the pointer 0
FirstFit(g) ==
    IF FreeBlockIndices(g) # {}
    THEN LET k == Min(FreeBlockIndices(g))
         IN  IF InBuffer(k)
             THEN [g |-> [g EXCEPT !.block_bitmap = SetBit(@, k),
                                   !.free_blocks_count = @ - 1],
                   blk |-> g.id * BLOCKS_PER_GROUP + 1 + k,
                   ok |-> TRUE]
             ELSE [g |-> g, blk |-> 0, ok |-> FALSE]
    ELSE [g |-> g, blk |-> 0, ok |-> TRUE]

----------------------------------------------------------------------------
(* Superblock, group descriptors, inode records, directory blocks *)

\* a packed field remembers the statement that packed it last
Field(v, by) == [val |-> v, by |-> by]

NoSuperblock ==
    [s_inodes_count |-> 0, s_blocks_count |-> 0,
     s_free_blocks_count |-> Field(0, "none"),
     s_free_inodes_count |-> Field(0, "none"),
     s_first_data_block |-> 0, s_blocks_per_group |-> 0,
     s_inodes_per_group |-> 0, s_magic |-> 0, s_state |-> 0]

\* the provisional free counts of create_superblock, lines 53-54
ProvisionalFreeBlocks == BLOCK_COUNT - 1 - GROUP_COUNT * 1 - 1
ProvisionalFreeInodes == INODE_COUNT - 11

\* struct.pack "<I" / "<H" raise struct.error outside the field's range
\* (every value of the model is below 2^32)
FitsU32(v) == v >= 0
FitsU16(v) == v >= 0 /\ v <= USHORT_MAX

create_superblock ==
    [s_inodes_count |-> INODE_COUNT, s_blocks_count |-> BLOCK_COUNT,
     s_free_blocks_count |-> Field(ProvisionalFreeBlocks, "create_superblock"),
     s_free_inodes_count |-> Field(ProvisionalFreeInodes, "create_superblock"),
     s_first_data_block |-> 1, s_blocks_per_group |-> BLOCKS_PER_GROUP,
     s_inodes_per_group |-> INODES_PER_GROUP, s_magic |-> 61267, s_state |-> 1]

create_superblock_ok ==
    /\ FitsU32(INODE_COUNT) /\ FitsU32(BLOCK_COUNT)
    /\ FitsU32(ProvisionalFreeBlocks) /\ FitsU32(ProvisionalFreeInodes)
    /\ FitsU32(BLOCKS_PER_GROUP) /\ FitsU32(INODES_PER_GROUP)

\* mutant: the fix-up of the free counts is left out
FoldTotalsSkipped(sb) == sb

\* lines 220-221
FoldTotals(sb) ==
    [sb EXCEPT !.s_free_blocks_count = Field(total_free_blocks, "totals"),
               !.s_free_inodes_count = Field(total_free_inodes, "totals")]

\* one record of the group descriptor table, lines 235-243
GroupDesc(g) ==
    [bg_block_bitmap |-> g.block_bitmap_blk,
     bg_inode_bitmap |-> g.inode_bitmap_blk,
     bg_inode_table |-> g.inode_table_blk,
     bg_free_blocks_count |-> g.free_blocks_count,
     bg_free_inodes_count |-> g.free_inodes_count,
     bg_used_dirs_count |-> g.used_dirs_count]

GroupDescPacks(k, g) ==
    /\ k * GROUP_DESC_SIZE + GROUP_DESC_PACKED <= BLOCK_SIZE
    /\ FitsU32(g.block_bitmap_blk) /\ FitsU32(g.inode_bitmap_blk)
    /\ FitsU32(g.inode_table_blk)
    /\ FitsU16(g.free_blocks_count) /\ FitsU16(g.free_inodes_count)
    /\ FitsU16(g.used_dirs_count)

BuildGDT == [k \in DOMAIN groups |-> GroupDesc(groups[k])]

\* lines 264-272 and 281-286
InodeRecord(links, blk) ==
    [i_mode |-> DIR_MODE, i_size |-> BLOCK_SIZE, i_links_count |-> links,
     i_blocks |-> 2, i_block0 |-> blk]

\* struct.pack_into("<IHBB<n>s", block, at, ino, rec_len, name_len, 2, name)
DirEntry(at, ino, rec_len, name_len, name) ==
    [at |-> at, inode |-> ino, rec_len |-> rec_len, name_len |-> name_len,
     file_type |-> 2, name |-> name]

\* names as byte strings
NameDot == <<".">>
NameDotDot == <<".", ".">>
NameLostFound == <<"l", "o", "s", "t", "+", "f", "o", "u", "n", "d">>

\* mutant: the ".." entry is given rec_len 16 while offset still advances by 12
BuildRootBlockLongDotDot ==
    <<[at |-> 0, inode |-> 2, rec_len |-> 12, name_len |-> 1, file_type |-> 2,
       name |-> <<".">>],
      [at |-> 12, inode |-> 2, rec_len |-> 16, name_len |-> 2, file_type |-> 2,
       name |-> <<".", ".">>],
      [at |-> 24, inode |-> 11, rec_len |-> BLOCK_SIZE - 24, name_len |-> 10,
       file_type |-> 2,
       name |-> <<"l", "o", "s", "t", "+", "f", "o", "u", "n", "d">>]>>

\* lines 298-315: offset advances by 12 after each of the first two entries
BuildRootBlock ==
    LET e1 == DirEntry(0, 2, 12, 1, NameDot)
        off1 == 0 + 12
        e2 == DirEntry(off1, 2, 12, 2, NameDotDot)
        off2 == off1 + 12
        e3 == DirEntry(off2, 11, BLOCK_SIZE - off2, 10, NameLostFound)
    IN  <<e1, e2, e3>>

\* lines 324-331
BuildLfBlock ==
    LET e1 == DirEntry(0, 11, 12, 1, NameDot)
        off1 == 0 + 12
        e2 == DirEntry(off1, 2, BLOCK_SIZE - off1, 2, NameDotDot)
    IN  <<e1, e2>>

----------------------------------------------------------------------------
(* The image file.  f.seek(off); f.write(data) past the end grows the file *)

NoFile == [exists |-> FALSE, size |-> 0, writes |-> <<>>]

Write(f, what, off, len, data) ==
    [f EXCEPT !.size = Max(@, off + len),
              !.writes = Append(@, [what |-> what, off |-> off, len |-> len,
                                    data |-> data])]

----------------------------------------------------------------------------
(* Parameter sets.  The stated invariants of the volume parameters:        *)
(* DISK_SIZE a multiple of BLOCK_SIZE, the inode table a whole number of   *)
(* blocks, and at least 11 inodes.                                         *)

ValidParams(p) ==
    LET bc == p.DISK_SIZE \div BLOCK_SIZE
        gc == (bc + p.BLOCKS_PER_GROUP - 1) \div p.BLOCKS_PER_GROUP
    IN  /\ p.DISK_SIZE % BLOCK_SIZE = 0
        /\ (p.INODES_PER_GROUP * INODE_SIZE) % BLOCK_SIZE = 0
        /\ p.INODES_PER_GROUP * gc >= 11

\* inodes per block, and half of it: table sizes in steps of half a block
InodesPerBlock == BLOCK_SIZE \div INODE_SIZE

SmallParams ==
    [DISK_SIZE : {b * BLOCK_SIZE + r : b \in 0 .. MaxDiskBlocks,
                                      r \in {0, BLOCK_SIZE \div 2}},
     BLOCKS_PER_GROUP : 1 .. MaxBlocksPerGroup,
     INODES_PER_GROUP : {k * (InodesPerBlock \div 2) :
                             k \in 0 .. 2 * MaxInodeTableBlocks}]

ValidParamSets == {p \in SmallParams : ValidParams(p)} \cup {DefaultParams}
AnyParamSets == SmallParams \cup {DefaultParams}

InitWith(P) ==
    /\ params \in P
    /\ pc = "create_groups"
    /\ error = "none"
    /\ groups = <<>>
    /\ g_idx = 0
    /\ i = 0
    /\ root_data_block = 0
    /\ lf_data_block = 0
    /\ total_free_blocks = 0
    /\ total_free_inodes = 0
    /\ sb_data = NoSuperblock
    /\ file = NoFile
    /\ printed = FALSE

Init == InitWith(ValidParamSets)
InitAnyConfig == InitWith(AnyParamSets)

----------------------------------------------------------------------------
(* The script, statement group by statement group *)

Crash(e) == pc' = "crashed" /\ error' = e

\* lines 118-120
CreateGroups ==
    /\ pc = "create_groups"
    /\ groups' = [k \in 0 .. (GROUP_COUNT - 1) |-> BlockGroup(k)]
    /\ g_idx' = 0
    /\ pc' = IF GROUP_COUNT = 0 THEN "root_inode" ELSE "alloc_metadata"
    /\ UNCHANGED <<params, error, i, root_data_block, lf_data_block,
                   total_free_blocks, total_free_inodes, sb_data, file, printed>>

\* lines 127-169, one group per step
AllocMetadata ==
    /\ pc = "alloc_metadata"
    /\ LET r == AllocGroupMetadata(groups[g_idx])
       IN  /\ groups' = [groups EXCEPT ![g_idx] = r.g]
           /\ IF ~r.ok THEN Crash("IndexError") /\ g_idx' = g_idx
              ELSE /\ g_idx' = g_idx + 1
                   /\ pc' = IF g_idx + 1 = GROUP_COUNT THEN "root_inode" ELSE pc
                   /\ error' = error
    /\ UNCHANGED <<params, i, root_data_block, lf_data_block,
                   total_free_blocks, total_free_inodes, sb_data, file, printed>>

\* take inode ino in its owning group; the exceptions of lines 173-177
TakeInode(ino, isDir, next) ==
    IF INODES_PER_GROUP = 0
    THEN Crash("ZeroDivisionError") /\ groups' = groups
    ELSE IF InodeGroup(ino) >= GROUP_COUNT \/ ~InBuffer(InodeOffset(ino))
    THEN Crash("IndexError") /\ groups' = groups
    ELSE /\ groups' = [groups EXCEPT ![InodeGroup(ino)] =
                           MarkInode(@, InodeOffset(ino), isDir)]
         /\ pc' = next
         /\ error' = error

\* lines 172-177
RootInode ==
    /\ pc = "root_inode"
    /\ TakeInode(root_inode_index, TRUE, "reserve_inodes")
    /\ i' = 1
    /\ UNCHANGED <<params, g_idx, root_data_block, lf_data_block,
                   total_free_blocks, total_free_inodes, sb_data, file, printed>>

\* lines 180-185, one iteration per step
ReserveInodes ==
    /\ pc = "reserve_inodes"
    /\ LET next == IF i = 10 THEN "root_data" ELSE pc
       IN  IF i = 2
           THEN pc' = next /\ UNCHANGED <<groups, error>>
           ELSE TakeInode(i, FALSE, next)
    /\ i' = IF pc' = "crashed" THEN i ELSE i + 1
    /\ UNCHANGED <<params, g_idx, root_data_block, lf_data_block,
                   total_free_blocks, total_free_inodes, sb_data, file, printed>>

\* lines 188-196: the scan is over groups[0]
RootData ==
    /\ pc = "root_data"
    /\ IF GROUP_COUNT = 0
       THEN Crash("IndexError") /\ UNCHANGED <<groups, root_data_block>>
       ELSE LET r == FirstFit(groups[0])
            IN  /\ groups' = [groups EXCEPT ![0] = r.g]
                /\ root_data_block' = r.blk
                /\ IF r.ok THEN pc' = "lf_inode" /\ error' = error
                   ELSE Crash("IndexError")
    /\ UNCHANGED <<params, g_idx, i, lf_data_block,
                   total_free_blocks, total_free_inodes, sb_data, file, printed>>

\* lines 199-204
LfInode ==
    /\ pc = "lf_inode"
    /\ TakeInode(lf_inode_index, TRUE, "lf_data")
    /\ UNCHANGED <<params, g_idx, i, root_data_block, lf_data_block,
                   total_free_blocks, total_free_inodes, sb_data, file, printed>>

\* lines 206-213: the scan is over groups[lf_group_idx]
LfData ==
    /\ pc = "lf_data"
    /\ LET r == FirstFit(groups[InodeGroup(lf_inode_index)])
       IN  /\ groups' = [groups EXCEPT ![InodeGroup(lf_inode_index)] = r.g]
           /\ lf_data_block' = r.blk
           /\ IF r.ok THEN pc' = "totals" /\ error' = error
              ELSE Crash("IndexError")
    /\ UNCHANGED <<params, g_idx, i, root_data_block,
                   total_free_blocks, total_free_inodes, sb_data, file, printed>>

\* lines 216-217
SumTotals ==
    /\ pc = "totals"
    /\ total_free_blocks' =
           SumOver([k \in DOMAIN groups |-> groups[k].free_blocks_count],
                   DOMAIN groups)
    /\ total_free_inodes' =
           SumOver([k \in DOMAIN groups |-> groups[k].free_inodes_count],
                   DOMAIN groups)
    /\ pc' = "create_superblock"
    /\ UNCHANGED <<params, error, groups, g_idx, i, root_data_block,
                   lf_data_block, sb_data, file, printed>>

\* line 219
CreateSuperblock ==
    /\ pc = "create_superblock"
    /\ IF create_superblock_ok
       THEN sb_data' = create_superblock /\ pc' = "fold_totals" /\ error' = error
       ELSE sb_data' = sb_data /\ Crash("struct.error")
    /\ UNCHANGED <<params, groups, g_idx, i, root_data_block, lf_data_block,
                   total_free_blocks, total_free_inodes, file, printed>>

\* lines 220-221
FoldTotalsIntoSuperblock ==
    /\ pc = "fold_totals"
    /\ IF ~FitsU32(total_free_blocks)
       THEN sb_data' = sb_data /\ Crash("struct.error")
       ELSE IF ~FitsU32(total_free_inodes)
       THEN /\ sb_data' = [sb_data EXCEPT !.s_free_blocks_count =
                                              Field(total_free_blocks, "totals")]
            /\ Crash("struct.error")
       ELSE sb_data' = FoldTotals(sb_data) /\ pc' = "open" /\ error' = error
    /\ UNCHANGED <<params, groups, g_idx, i, root_data_block, lf_data_block,
                   total_free_blocks, total_free_inodes, file, printed>>

\* lines 224-225: open("disk.img", "wb"); f.truncate(DISK_SIZE)
OpenImage ==
    /\ pc = "open"
    /\ file' = [exists |-> TRUE, size |-> DISK_SIZE, writes |-> <<>>]
    /\ pc' = "write_sb"
    /\ UNCHANGED <<params, error, groups, g_idx, i, root_data_block,
                   lf_data_block, total_free_blocks, total_free_inodes,
                   sb_data, printed>>

\* lines 228-229
WriteSuperblock ==
    /\ pc = "write_sb"
    /\ file' = Write(file, "superblock", SUPERBLOCK_OFFSET, SUPERBLOCK_SIZE, sb_data)
    /\ pc' = "write_gdt"
    /\ UNCHANGED <<params, error, groups, g_idx, i, root_data_block,
                   lf_data_block, total_free_blocks, total_free_inodes,
                   sb_data, printed>>

\* lines 233-245: a descriptor that does not pack raises before f.write
WriteGDT ==
    /\ pc = "write_gdt"
    /\ IF \A k \in DOMAIN groups : GroupDescPacks(k, groups[k])
       THEN /\ file' = Write(file, "gdt", 2 * BLOCK_SIZE, BLOCK_SIZE, BuildGDT)
            /\ pc' = IF GROUP_COUNT = 0 THEN "write_root_dir" ELSE "write_groups"
            /\ error' = error
       ELSE file' = file /\ Crash("struct.error")
    /\ g_idx' = 0
    /\ UNCHANGED <<params, groups, i, root_data_block, lf_data_block,
                   total_free_blocks, total_free_inodes, sb_data, printed>>

\* lines 248-289, one group per step
WriteGroup ==
    /\ pc = "write_groups"
    /\ LET g == groups[g_idx]
           f1 == Write(file, "block_bitmap", g.block_bitmap_blk * BLOCK_SIZE,
                       BLOCK_SIZE, g.block_bitmap)
           f2 == Write(f1, "inode_bitmap", g.inode_bitmap_blk * BLOCK_SIZE,
                       BLOCK_SIZE, g.inode_bitmap)
           f3 == IF g.id = InodeGroup(root_inode_index)
                 THEN Write(f2, "root_inode",
                            g.inode_table_blk * BLOCK_SIZE
                                + InodeOffset(root_inode_index) * INODE_SIZE,
                            INODE_SIZE, InodeRecord(3, root_data_block))
                 ELSE f2
           f4 == IF g.id = InodeGroup(lf_inode_index)
                 THEN Write(f3, "lf_inode",
                            g.inode_table_blk * BLOCK_SIZE
                                + InodeOffset(lf_inode_index) * INODE_SIZE,
                            INODE_SIZE, InodeRecord(2, lf_data_block))
                 ELSE f3
       IN  file' = f4
    /\ g_idx' = g_idx + 1
    /\ pc' = IF g_idx + 1 = GROUP_COUNT THEN "write_root_dir" ELSE pc
    /\ UNCHANGED <<params, error, groups, i, root_data_block, lf_data_block,
                   total_free_blocks, total_free_inodes, sb_data, printed>>

\* lines 298-318
WriteRootDir ==
    /\ pc = "write_root_dir"
    /\ file' = Write(file, "root_block", root_data_block * BLOCK_SIZE,
                     BLOCK_SIZE, BuildRootBlock)
    /\ pc' = "write_lf_dir"
    /\ UNCHANGED <<params, error, groups, g_idx, i, root_data_block,
                   lf_data_block, total_free_blocks, total_free_inodes,
                   sb_data, printed>>

\* lines 324-334
WriteLfDir ==
    /\ pc = "write_lf_dir"
    /\ file' = Write(file, "lf_block", lf_data_block * BLOCK_SIZE,
                     BLOCK_SIZE, BuildLfBlock)
    /\ pc' = "print"
    /\ UNCHANGED <<params, error, groups, g_idx, i, root_data_block,
                   lf_data_block, total_free_blocks, total_free_inodes,
                   sb_data, printed>>

\* line 336
PrintFormatted ==
    /\ pc = "print"
    /\ printed' = TRUE
    /\ pc' = "done"
    /\ UNCHANGED <<params, error, groups, g_idx, i, root_data_block,
                   lf_data_block, total_free_blocks, total_free_inodes,
                   sb_data, file>>

Next ==
    \/ CreateGroups
    \/ AllocMetadata
    \/ RootInode
    \/ ReserveInodes
    \/ RootData
    \/ LfInode
    \/ LfData
    \/ SumTotals
    \/ CreateSuperblock
    \/ FoldTotalsIntoSuperblock
    \/ OpenImage
    \/ WriteSuperblock
    \/ WriteGDT
    \/ WriteGroup
    \/ WriteRootDir
    \/ WriteLfDir
    \/ PrintFormatted

Spec == Init /\ [][Next]_vars
SpecAnyConfig == InitAnyConfig /\ [][Next]_vars

----------------------------------------------------------------------------
(* Vocabulary of the properties *)

\* positions after the metadata pass and the reserved-object pass
AfterAllocationPcs ==
    {"totals", "create_superblock", "fold_totals", "open", "write_sb",
     "write_gdt", "write_groups", "write_root_dir", "write_lf_dir", "print",
     "done"}

\* struct.error is only raised by statements after the two passes
AllocationFinished ==
    pc \in AfterAllocationPcs \/ (pc = "crashed" /\ error = "struct.error")

RootScanDone == pc \in {"lf_inode", "lf_data"} \/ AllocationFinished
LfScanDone == AllocationFinished

\* a build that reported success, with both data blocks allocated and no
\* write past the size set by truncate
CleanBuild ==
    /\ pc = "done"
    /\ root_data_block # 0 /\ lf_data_block # 0
    /\ file.size = DISK_SIZE

\* positions after the free totals were summed (line 217)
AfterSumPcs == AfterAllocationPcs \ {"totals"}

GroupIds == DOMAIN groups

SetBits(bitmap) == Cardinality(bitmap)

\* the block address a set bit of group k stands for
BitAddress(k, bit) == k * BLOCKS_PER_GROUP + 1 + (bit[1] * 8 + bit[2])

UsedBlocks == SumOver([k \in GroupIds |-> SetBits(groups[k].block_bitmap)], GroupIds)
UsedInodes == SumOver([k \in GroupIds |-> SetBits(groups[k].inode_bitmap)], GroupIds)
FreeBlocksSum == SumOver([k \in GroupIds |-> groups[k].free_blocks_count], GroupIds)
FreeInodesSum == SumOver([k \in GroupIds |-> groups[k].free_inodes_count], GroupIds)

\* the writes of one kind, and the last write that covers a byte of the image
WritesOf(what) == {k \in DOMAIN file.writes : file.writes[k].what = what}
Covering(off) ==
    {k \in DOMAIN file.writes :
        file.writes[k].off <= off /\ off < file.writes[k].off + file.writes[k].len}
LastCovering(off) == file.writes[CHOOSE k \in Covering(off) : \A j \in Covering(off) : j <= k]

\* logical owners of blocks: <<kind, group, index>> and the block address
Owners ==
    {[owner |-> <<"superblock", 0, 0>>, group |-> 0, blk |-> 1],
     [owner |-> <<"gdt", 0, 0>>, group |-> 0, blk |-> 2],
     [owner |-> <<"root_data", 0, 0>>, group |-> InodeGroup(root_inode_index),
      blk |-> root_data_block],
     [owner |-> <<"lf_data", 0, 0>>, group |-> InodeGroup(lf_inode_index),
      blk |-> lf_data_block]}
    \cup {[owner |-> <<"block_bitmap", k, 0>>, group |-> k,
           blk |-> groups[k].block_bitmap_blk] : k \in GroupIds}
    \cup {[owner |-> <<"inode_bitmap", k, 0>>, group |-> k,
           blk |-> groups[k].inode_bitmap_blk] : k \in GroupIds}
    \cup UNION {{[owner |-> <<"inode_table", k, j>>, group |-> k,
                  blk |-> groups[k].inode_table_blk + j] :
                     j \in 0 .. (inode_table_blocks - 1)} : k \in GroupIds}

WritesDisjoint ==
    \A a, b \in DOMAIN file.writes :
        a # b => \/ file.writes[a].off + file.writes[a].len <= file.writes[b].off
                 \/ file.writes[b].off + file.writes[b].len <= file.writes[a].off

\* minimal record length of a directory entry: 8-byte header plus the name,
\* rounded up to a multiple of 4
MinRecLen(name_len) == ((8 + name_len + 3) \div 4) * 4

RecLenSum(block) == SumOver([k \in DOMAIN block |-> block[k].rec_len], DOMAIN block)

DirBlockComplete(block, names) ==
    /\ Len(block) = Len(names)
    /\ block[1].at = 0
    /\ \A k \in 2 .. Len(block) : block[k].at = block[k-1].at + block[k-1].rec_len
    /\ \A k \in DOMAIN block :
          /\ block[k].name = names[k]
          /\ block[k].name_len = Len(names[k])
          /\ 8 + block[k].name_len <= block[k].rec_len
    /\ \A k \in 1 .. (Len(block) - 1) : block[k].rec_len = MinRecLen(block[k].name_len)
    /\ block[Len(block)].rec_len > MinRecLen(block[Len(block)].name_len)
    /\ RecLenSum(block) = BLOCK_SIZE

\* the lowest-indexed unset block of group g is index k
LowestUnset(g, k) ==
    /\ k \in 0 .. (BLOCKS_PER_GROUP - 1)
    /\ ~TestBit(g.block_bitmap, k)
    /\ \A j \in 0 .. (k - 1) : TestBit(g.block_bitmap, j)

HasUnset(g) == \E k \in 0 .. (BLOCKS_PER_GROUP - 1) : ~TestBit(g.block_bitmap, k)

----------------------------------------------------------------------------
(* C1.  Bitmap consistency: once the metadata pass and the reserved-object *)
(* pass have finished, in every group the number of set bits of the block  *)
(* bitmap is BLOCKS_PER_GROUP - free_blocks_count and the number of set    *)
(* bits of the inode bitmap is INODES_PER_GROUP - free_inodes_count.       *)
C1_BitmapConsistency ==
    AllocationFinished =>
        \A k \in GroupIds :
            /\ SetBits(groups[k].block_bitmap)
                   = BLOCKS_PER_GROUP - groups[k].free_blocks_count
            /\ SetBits(groups[k].inode_bitmap)
                   = INODES_PER_GROUP - groups[k].free_inodes_count

\* a finished build of several groups with both data blocks allocated
C1_Witness ==
    /\ pc = "done"
    /\ GROUP_COUNT > 1
    /\ root_data_block # 0 /\ lf_data_block # 0
    /\ \E k \in GroupIds : SetBits(groups[k].inode_bitmap) >= 10

\* every owned block is distinct and marked, and every marked block is owned
LayoutDisjoint ==
    LET owners == Owners
        owned == {o.blk : o \in owners}
    IN  /\ Cardinality(owned) = Cardinality(owners)
        /\ \A o \in owners :
               TestBit(groups[o.group].block_bitmap,
                       o.blk - (o.group * BLOCKS_PER_GROUP + 1))
        /\ \A k \in GroupIds :
               {BitAddress(k, bit) : bit \in groups[k].block_bitmap} \subseteq owned

(* C2.  No double allocation: in the finished layout of a build that       *)
(* reported success, the blocks of the superblock, the GDT, every group's  *)
(* bitmaps and inode table, the root data block and the lost+found data    *)
(* block are pairwise distinct, each has its bit set in the owning group's *)
(* block bitmap, no bit is set without such an owner, and the byte ranges  *)
(* the writer wrote do not overlap.                                        *)
C2_NoDoubleAllocation == pc = "done" => (LayoutDisjoint /\ WritesDisjoint)

(* C3.  Free-count conservation: after all allocation steps the free block *)
(* counters plus the blocks marked used add up to BLOCK_COUNT, and the     *)
(* free inode counters plus the inodes marked used add up to INODE_COUNT.  *)
(* Stated for the builds least in doubt: those that report success with    *)
(* both data blocks allocated and every write inside the image.            *)
C3_FreeCountConservation ==
    CleanBuild =>
        /\ FreeBlocksSum + UsedBlocks = BLOCK_COUNT
        /\ FreeInodesSum + UsedInodes = INODE_COUNT

(* C4.  The image is exactly DISK_SIZE bytes: every write of the writer    *)
(* lies in a block below BLOCK_COUNT and the file never grows past the     *)
(* size set by truncate.  Stated for the volumes least in doubt: a whole   *)
(* number of groups, both data blocks allocated.                           *)
C4_ImageSizeExact ==
    (/\ file.exists
     /\ BLOCK_COUNT % BLOCKS_PER_GROUP = 0
     /\ root_data_block # 0 /\ lf_data_block # 0) =>
        /\ file.size = DISK_SIZE
        /\ \A k \in DOMAIN file.writes :
               (file.writes[k].off + file.writes[k].len - 1) \div BLOCK_SIZE
                   < BLOCK_COUNT

(* C5.  Allocation exhaustion is fatal: when a first-fit scan left its     *)
(* data-block pointer at 0, the image is never opened or written and       *)
(* success is never printed.                                               *)
C5_ExhaustionIsFatal ==
    ((RootScanDone /\ root_data_block = 0) \/ (LfScanDone /\ lf_data_block = 0))
        => (~file.exists /\ file.writes = <<>> /\ ~printed)

(* C6.  Configuration errors are detected first: with parameters that      *)
(* violate a stated invariant no allocation step changes a group, no image *)
(* is created and success is not printed.                                  *)
C6_ConfigErrorsFatal ==
    ~ValidParams(params) =>
        /\ \A k \in GroupIds : groups[k] = BlockGroup(k)
        /\ ~file.exists
        /\ ~printed

(* C7.  Directory block completeness: both directory blocks written to the *)
(* image hold their entries back to back from offset 0 in the fixed order, *)
(* every entry but the last has the minimal rec_len for its name, only the *)
(* last is stretched, and the rec_len fields add up to BLOCK_SIZE          *)
(* (12 + 12 + (BLOCK_SIZE - 24) and 12 + (BLOCK_SIZE - 12)).               *)
C7_DirectoryBlocksComplete ==
    /\ \A k \in WritesOf("root_block") :
          /\ DirBlockComplete(file.writes[k].data,
                              <<NameDot, NameDotDot, NameLostFound>>)
          /\ [j \in 1 .. 3 |-> file.writes[k].data[j].rec_len]
                 = <<12, 12, BLOCK_SIZE - 24>>
    /\ \A k \in WritesOf("lf_block") :
          /\ DirBlockComplete(file.writes[k].data, <<NameDot, NameDotDot>>)
          /\ [j \in 1 .. 2 |-> file.writes[k].data[j].rec_len]
                 = <<12, BLOCK_SIZE - 12>>
    /\ pc \in {"write_lf_dir", "print", "done"} => WritesOf("root_block") # {}
    /\ pc \in {"print", "done"} => WritesOf("lf_block") # {}

\* both directory blocks are in the image
C7_Witness ==
    /\ pc = "done"
    /\ WritesOf("root_block") # {} /\ WritesOf("lf_block") # {}
    /\ root_data_block # lf_data_block

(* C8.  Free totals are folded in last: the free-block and free-inode      *)
(* fields of the superblock in the image equal the sums of the free counts *)
(* of the group descriptors in the same image and were packed by the fold  *)
(* of lines 220-221, not by create_superblock; and no step after the sums  *)
(* were taken changes a group's bitmap or counter.                         *)
C8_WrittenTotals ==
    WritesOf("gdt") # {} =>
        LET sbw == LastCovering(SUPERBLOCK_OFFSET + 12)
            gdw == LastCovering(2 * BLOCK_SIZE)
        IN  /\ sbw.what = "superblock" /\ gdw.what = "gdt"
            /\ sbw.data.s_free_blocks_count.val
                   = SumOver([k \in DOMAIN gdw.data |-> gdw.data[k].bg_free_blocks_count],
                             DOMAIN gdw.data)
            /\ sbw.data.s_free_inodes_count.val
                   = SumOver([k \in DOMAIN gdw.data |-> gdw.data[k].bg_free_inodes_count],
                             DOMAIN gdw.data)
            /\ sbw.data.s_free_blocks_count.by = "totals"
            /\ sbw.data.s_free_inodes_count.by = "totals"

C8_NoChangeAfterSum == (pc \in AfterSumPcs) => (groups' = groups)

C9_RootStep ==
    (pc = "root_data" /\ pc' = "lf_inode") =>
        LET g == groups[InodeGroup(root_inode_index)]
        IN  HasUnset(g) =>
                \E k \in 0 .. (BLOCKS_PER_GROUP - 1) :
                    /\ LowestUnset(g, k)
                    /\ root_data_block' = g.id * BLOCKS_PER_GROUP + 1 + k
                    /\ groups'[g.id].block_bitmap = g.block_bitmap \cup {Bit(k)}

C9_LfStep ==
    (pc = "lf_data" /\ pc' = "totals") =>
        LET g == groups[InodeGroup(lf_inode_index)]
        IN  HasUnset(g) =>
                \E k \in 0 .. (BLOCKS_PER_GROUP - 1) :
                    /\ LowestUnset(g, k)
                    /\ lf_data_block' = g.id * BLOCKS_PER_GROUP + 1 + k
                    /\ groups'[g.id].block_bitmap = g.block_bitmap \cup {Bit(k)}

C9_Pointers ==
    /\ \A k \in WritesOf("root_inode") : file.writes[k].data.i_block0 = root_data_block
    /\ \A k \in WritesOf("lf_inode") : file.writes[k].data.i_block0 = lf_data_block
    /\ pc = "done" => WritesOf("root_inode") # {} /\ WritesOf("lf_inode") # {}
    /\ (params = DefaultParams /\ AllocationFinished) =>
           /\ groups[0].inode_table_blk = 5
           /\ groups[0].inode_table_blk + inode_table_blocks - 1 = 260
           /\ root_data_block = 261
           /\ lf_data_block = 262

C9_FirstFitDataBlocks ==
    []C9_Pointers /\ [][C9_RootStep /\ C9_LfStep]_vars

\* a finished build whose lost+found lives in another group than the root
C9_Witness ==
    /\ pc = "done"
    /\ InodeGroup(lf_inode_index) # InodeGroup(root_inode_index)
    /\ root_data_block # 0 /\ lf_data_block # 0
    /\ lf_data_block > BLOCKS_PER_GROUP

(* C10.  Every block accounted as free exists on the volume: after the     *)
(* allocation passes every unset bit i < BLOCKS_PER_GROUP of every group g *)
(* stands for an address g.id * BLOCKS_PER_GROUP + 1 + i of at most        *)
(* BLOCK_COUNT - 1, and the summed free total is at most                   *)
(* (BLOCK_COUNT - 1) minus the blocks in use.  Stated for the builds least  *)
(* in doubt: those that report success with both data blocks allocated and *)
(* every write inside the image.                                           *)
C10_FreeBlocksExist ==
    CleanBuild =>
        /\ \A k \in GroupIds : \A idx \in 0 .. (BLOCKS_PER_GROUP - 1) :
               ~TestBit(groups[k].block_bitmap, idx)
                   => k * BLOCKS_PER_GROUP + 1 + idx <= BLOCK_COUNT - 1
        /\ FreeBlocksSum <= (BLOCK_COUNT - 1) - UsedBlocks

====
